---------------------------- MODULE Spec2Model ----------------------------
(***************************************************************************)
(* Particle-life simulation kernel (class ParticleGroup and the free       *)
(* functions interactParticle, interactGroup, constraint) together with    *)
(* the AppComponent handlers that drive it.                                *)
(*                                                                         *)
(* Numbers.  The program computes with IEEE doubles.  Here a number is a   *)
(* fixed-point value: the integer n stands for n / Prec.  Sums and         *)
(* differences are exact; products, quotients and square roots are rounded *)
(* to the nearest representable value (ties away from zero), which is what *)
(* the floating-point unit does at a much finer resolution.  EPSILON is    *)
(* the smallest positive representable number.                             *)
(*                                                                         *)
(* Indices are 1-based (JavaScript index i is i + 1 here); findIndex       *)
(* returns 0 where JavaScript returns -1.                                  *)
(***************************************************************************)
EXTENDS Integers, Sequences, FiniteSets, TLC

VARIABLES
    groups,       \* ParticleGroup.groups
    images,       \* ParticleGroup.images, each canvas by its width (= height)
    isRunning,    \* ParticleGroup.isRunning
    innerWidth,   \* window.innerWidth  = RenderService.canvas.width
    innerHeight,  \* window.innerHeight = RenderService.canvas.height
    frames,       \* number of animation frames computed so far
    last          \* the call that produced this state, and how it ended

vars == <<groups, images, isRunning, innerWidth, innerHeight, frames, last>>

----------------------------------------------------------------------------
(* Bounds of the model                                                     *)

Prec == 100         \* resolution of a number: 1 / Prec
MaxGroups == 3      \* addGroup is not called once the registry, or a row
                    \* of a force/range table, has this many entries
MaxFrames == 3      \* frames computed in one behaviour
MaxCount == 3       \* no click asks for more particles than this, or for
                    \* fewer than minus this
MaxDefault == 1     \* addDefaultGroup is not clicked on a registry this big
MaxSimGroups == 2   \* groups of the simulated registry

----------------------------------------------------------------------------
(* Numbers                                                                 *)

N(k) == k * Prec

Abs(n) == IF n < 0 THEN -n ELSE n

Sign(n) == IF n < 0 THEN -1 ELSE IF n > 0 THEN 1 ELSE 0

\* the integer nearest to a / b, ties away from zero (b # 0)
Round(a, b) == Sign(a) * Sign(b) * ((2 * Abs(a) + Abs(b)) \div (2 * Abs(b)))

Mul(a, b) == Round(a * b, Prec)

Div(a, b) == Round(a * Prec, b)

\* lo * lo <= n < hi * hi
RECURSIVE SqrtBetween(_, _, _)
SqrtBetween(n, lo, hi) ==
    IF hi - lo <= 1 THEN lo
    ELSE LET mid == (lo + hi) \div 2
         IN  IF mid * mid <= n THEN SqrtBetween(n, mid, hi)
             ELSE SqrtBetween(n, lo, mid)

\* the largest integer whose square is at most n (n < 2^30)
ISqrt(n) == SqrtBetween(n, 0, 32768)

\* v ** .5, rounded to the nearest representable number
Sqrt(v) ==
    LET r == ISqrt(v * Prec)
    IN  IF v * Prec > r * r + r THEN r + 1 ELSE r

\* Number.EPSILON
EPSILON == 1

\* v * (m / 1000) for a factor given in thousandths
Scale(v, m) == Round(v * m, 1000)

Max(S) == CHOOSE m \in S : \A n \in S : n <= m

Range(s) == {s[i] : i \in DOMAIN s}

----------------------------------------------------------------------------
(* Array primitives                                                        *)

\* Array.prototype.splice(i, 1); a negative index counts from the end
splice(s, i) ==
    LET k == IF i < 1 THEN Len(s) + i ELSE i
    IN  IF k < 1 \/ k > Len(s) THEN s
        ELSE [m \in 1..(Len(s) - 1) |-> IF m < k THEN s[m] ELSE s[m + 1]]

\* Array.prototype.findIndex with the predicate g === group; groups are
\* objects, told apart by reference, which the field id stands for
findIndex(gs, id) ==
    IF \E k \in 1..Len(gs) : gs[k].id = id
    THEN CHOOSE k \in 1..Len(gs) :
            gs[k].id = id /\ \A m \in 1..(k - 1) : gs[m].id # id
    ELSE 0

\* a reference no group of the registry has
NewId(gs) == CHOOSE n \in 1..(Len(gs) + 1) : \A k \in 1..Len(gs) : gs[k].id # n

Particle(x, y) == [x |-> x, y |-> y, vx |-> 0, vy |-> 0, ax |-> 0, ay |-> 0]

----------------------------------------------------------------------------
(* ParticleGroup.updateParticleCount                                       *)

\* the number of iterations of  for (let i = 0; i < d; i++)
Iterations(d) == IF d <= 0 THEN 0 ELSE (d + Prec - 1) \div Prec

\* Assigning array.length a value that is not a non-negative integer throws
\* RangeError.
ValidLength(n) == n >= 0 /\ n % Prec = 0

\* rnd[i] is the pair of Math.random() * w, Math.random() * h drawn for the
\* i-th particle pushed.  The result is the collection and whether the call
\* threw.
updateParticleCount(group, rnd) ==
    LET d == group.count - N(Len(group.items))
    IN  IF d = 0 THEN [items |-> group.items, threw |-> FALSE]
        ELSE IF d < 0
        THEN IF ValidLength(N(Len(group.items)) + d)
             THEN [items |-> SubSeq(group.items, 1, (N(Len(group.items)) + d) \div Prec),
                   threw |-> FALSE]
             ELSE [items |-> group.items, threw |-> TRUE]
        ELSE [items |-> group.items
                        \o [i \in 1..Iterations(d) |-> Particle(rnd[i][1], rnd[i][2])],
              threw |-> FALSE]

----------------------------------------------------------------------------
(* ParticleGroup.updateImages                                              *)

arrowSize == 5

\* the width updateGroupImage gives the canvas of group i
ImageWidth(group) == Max(Range(group.ranges)) * 2 + N(arrowSize) * 2

updateImages(gs, imgs) ==
    [i \in 1..(IF Len(gs) > Len(imgs) THEN Len(gs) ELSE Len(imgs)) |->
        IF i <= Len(gs) THEN ImageWidth(gs[i]) ELSE imgs[i]]

----------------------------------------------------------------------------
(* ParticleGroup.addGroup                                                  *)

\* The loop of addGroup from index i on: the registry as the loop leaves
\* it, and whether it threw.
RECURSIVE addGroupLoop(_, _, _)
addGroupLoop(gs, group, i) ==
    IF i > Len(gs) THEN [groups |-> gs, threw |-> FALSE]
    ELSE IF group.ranges[i] < group.particleRadius
    THEN [groups |-> gs, threw |-> TRUE]
    ELSE addGroupLoop(
            [gs EXCEPT ![i].forces = Append(@, group.forces[i]),
                       ![i].ranges = Append(@, group.ranges[i])],
            group, i + 1)

addGroup(gs, group, rnd) ==
    LET loop == addGroupLoop(gs, group, 1)
        filled == updateParticleCount(group, rnd)
    IN  IF loop.threw THEN loop
        ELSE [groups |-> Append(loop.groups, [group EXCEPT !.items = filled.items]),
              threw |-> filled.threw]

----------------------------------------------------------------------------
(* ParticleGroup.removeGroup                                               *)

\* removeGroup forgetting the tables of the groups that remain
removeGroupOnly(gs, id) == splice(gs, findIndex(gs, id))

removeGroup(gs, id) ==
    LET i == findIndex(gs, id)
        rest == splice(gs, i)
    IN  [k \in 1..Len(rest) |->
            [rest[k] EXCEPT !.ranges = splice(@, i), !.forces = splice(@, i)]]

----------------------------------------------------------------------------
(* ParticleGroup.pause                                                     *)

pause(gs, running) == [k \in 1..Len(gs) |-> [gs[k] EXCEPT !.isRunning = running]]

----------------------------------------------------------------------------
(* interactParticle, constraint, interactGroup                             *)

\* interactParticle with the force branch mistaken for the hard core
interactParticleHard(a, b, f, maxDistance, particleRadius) ==
    LET dx == a.x - b.x
        dy == a.y - b.y
        dSq == (Mul(dx, dx) + Mul(dy, dy)) + EPSILON
        distance == Sqrt(dSq) + EPSILON
        F == Div(-N(6), distance)
    IN  IF distance < maxDistance
        THEN [a EXCEPT !.ax = @ - Mul(F, dx), !.ay = @ - Mul(F, dy)]
        ELSE a

\* interactParticle taking the force where the hard core applies
interactParticleSoft(a, b, f, maxDistance, particleRadius) ==
    LET dx == a.x - b.x
        dy == a.y - b.y
        dSq == (Mul(dx, dx) + Mul(dy, dy)) + EPSILON
        distance == Sqrt(dSq) + EPSILON
        F == Div(f, distance)
    IN  IF distance < maxDistance \/ distance < particleRadius
        THEN [a EXCEPT !.ax = @ - Mul(F, dx), !.ay = @ - Mul(F, dy)]
        ELSE a

\* the local  distance  of interactParticle
Distance(a, b) ==
    LET dx == a.x - b.x
        dy == a.y - b.y
        dSq == (Mul(dx, dx) + Mul(dy, dy)) + EPSILON
    IN  Sqrt(dSq) + EPSILON

\* the particle a as interactParticle(a, b, ...) leaves it
interactParticle(a, b, f, maxDistance, particleRadius) ==
    LET dx == a.x - b.x
        dy == a.y - b.y
        distance == Distance(a, b)
    IN  IF distance < particleRadius
        THEN LET F == Div(-N(6), distance)
             IN  [a EXCEPT !.ax = @ - Mul(F, dx), !.ay = @ - Mul(F, dy)]
        ELSE IF distance < maxDistance
        THEN LET F == Div(f, distance)
             IN  [a EXCEPT !.ax = @ - Mul(F, dx), !.ay = @ - Mul(F, dy)]
        ELSE a

\* constraint without the upper walls
constraintLower(particle, r, width, height) ==
    LET px == IF particle.x < r
              THEN [particle EXCEPT !.x = r, !.vx = -@]
              ELSE particle
    IN  IF px.y < r THEN [px EXCEPT !.y = r, !.vy = -@] ELSE px

\* the particle as constraint(particle, r, width, height) leaves it
constraint(particle, r, width, height) ==
    LET px == IF particle.x < r
              THEN [particle EXCEPT !.x = r, !.vx = -@]
              ELSE IF particle.x > width - r
              THEN [particle EXCEPT !.x = width - r, !.vx = -@]
              ELSE particle
    IN  IF px.y < r
        THEN [px EXCEPT !.y = r, !.vy = -@]
        ELSE IF px.y > height - r
        THEN [px EXCEPT !.y = height - r, !.vy = -@]
        ELSE px

\* the inner loop of interactGroup from index j on: a after the calls of
\* interactParticle against items[j], items[j + 1], ...
RECURSIVE sources(_, _, _, _, _, _)
sources(a, items, j, f, maxDistance, particleRadius) ==
    IF j > Len(items) THEN a
    ELSE sources(interactParticle(a, items[j], f, maxDistance, particleRadius),
                 items, j + 1, f, maxDistance, particleRadius)

\* one iteration of the outer loop of interactGroup: the particle a of
\* group1 against the particles of group2 as they are now
target(a, items2, f, maxDistance, particleRadius, dt, width, height, dampening) ==
    LET reset == [a EXCEPT !.ax = 0, !.ay = 0]
        pushed == sources(reset, items2, 1, f, maxDistance, particleRadius)
        faster == [pushed EXCEPT !.vx = @ + Mul(dt, pushed.ax),
                                 !.vy = @ + Mul(dt, pushed.ay)]
        damped == [faster EXCEPT !.vx = Scale(@, dampening),
                                 !.vy = Scale(@, dampening)]
        moved == [damped EXCEPT !.x = @ + damped.vx, !.y = @ + damped.vy]
    IN  constraint(moved, particleRadius, width, height)

\* The outer loop of interactGroup from index i on, for group1 = gs[g1] and
\* group2 = gs[g2] (the same object when g1 = g2, so that a particle
\* updated earlier in the loop is read in its new position).  sweep is the
\* registry so far, the number of calls of interactParticle so far, and
\* for every particle the source groups whose sweeps have run the body of
\* this loop for it so far, in order.
RECURSIVE targets(_, _, _, _, _, _, _, _, _, _)
targets(sweep, g1, g2, i, f, maxDistance, dt, width, height, dampening) ==
    IF i > Len(sweep.groups[g1].items) THEN sweep
    ELSE targets(
            [groups |-> [sweep.groups EXCEPT ![g1].items[i] =
                            target(@, sweep.groups[g2].items, f, maxDistance,
                                   sweep.groups[g1].particleRadius,
                                   dt, width, height, dampening)],
             calls |-> sweep.calls + Len(sweep.groups[g2].items),
             passes |-> [sweep.passes EXCEPT ![g1][i] = Append(@, g2)]],
            g1, g2, i + 1, f, maxDistance, dt, width, height, dampening)

interactGroup(sweep, g1, g2, f, maxDistance, dt, width, height, dampening) ==
    targets(sweep, g1, g2, 1, f, maxDistance, dt, width, height, dampening)

----------------------------------------------------------------------------
(* ParticleGroup.step, ParticleGroup.computationsPerFrame                  *)

dampening == 993    \* ParticleGroup.dampening = .993, in thousandths
dtScale == 1        \* ParticleGroup.dt = .001, in thousandths

\* step running the groups that are paused too
stepPairPaused(sweep, i, j, dt, width, height, damp) ==
    IF sweep.groups[i].forces[j] = 0 THEN sweep
    ELSE interactGroup(sweep, i, j, sweep.groups[i].forces[j],
                       sweep.groups[i].ranges[j], dt, width, height, damp)

\* step leaving the inner loop after the first sweep of a target group
stepPairOnce(sweep, i, j, dt, width, height, damp) ==
    IF ~sweep.groups[i].isRunning THEN sweep
    ELSE IF sweep.groups[i].forces[j] = 0 THEN sweep
    ELSE IF \E k \in 1..(j - 1) : sweep.groups[i].forces[k] # 0 THEN sweep
    ELSE interactGroup(sweep, i, j, sweep.groups[i].forces[j],
                       sweep.groups[i].ranges[j], dt, width, height, damp)

\* the body of the loops of step for the pair (i, j)
stepPair(sweep, i, j, dt, width, height, damp) ==
    IF ~sweep.groups[i].isRunning THEN sweep
    ELSE IF sweep.groups[i].forces[j] = 0 THEN sweep
    ELSE interactGroup(sweep, i, j, sweep.groups[i].forces[j],
                       sweep.groups[i].ranges[j], dt, width, height, damp)

\* the loops of step from the pair (i, j) on
RECURSIVE stepFrom(_, _, _, _, _, _, _)
stepFrom(sweep, i, j, dt, width, height, damp) ==
    IF i > Len(sweep.groups) THEN sweep
    ELSE IF j > Len(sweep.groups) THEN stepFrom(sweep, i + 1, 1, dt, width, height, damp)
    ELSE stepFrom(stepPair(sweep, i, j, dt, width, height, damp),
                  i, j + 1, dt, width, height, damp)

\* no particle of gs has been through the loop of interactGroup yet
NoPasses(gs) == [g \in 1..Len(gs) |-> [n \in 1..Len(gs[g].items) |-> <<>>]]

\* the sweep record at the entry of step
Entry(gs) == [groups |-> gs, calls |-> 0, passes |-> NoPasses(gs)]

\* step(groups, dt): the registry after it, the calls of interactParticle
\* it made, and the passes of the loop of interactGroup over each particle
step(gs, dt, width, height, damp) ==
    stepFrom(Entry(gs), 1, 1, dt, width, height, damp)

\* computationsPerFrame counting the groups that are paused too
perFramePaused(gs, i, j) ==
    IF gs[i].forces[j] = 0 THEN 0 ELSE Len(gs[i].items) * Len(gs[j].items)

\* what the loops of computationsPerFrame add to k for the pair (i, j)
perFrame(gs, i, j) ==
    IF ~gs[i].isRunning \/ gs[i].forces[j] = 0 THEN 0
    ELSE Len(gs[i].items) * Len(gs[j].items)

RECURSIVE computationsFrom(_, _, _, _)
computationsFrom(gs, k, i, j) ==
    IF i > Len(gs) THEN k
    ELSE IF j > Len(gs) THEN computationsFrom(gs, k, i + 1, 1)
    ELSE computationsFrom(gs, k + perFrame(gs, i, j), i, j + 1)

computationsPerFrame(gs) == computationsFrom(gs, 0, 1, 1)

----------------------------------------------------------------------------
(* State after construction, and the handlers as actions                   *)

Done(op, threw, at, calls) ==
    [op |-> op, threw |-> threw, at |-> at, calls |-> calls, passes |-> <<>>]

\* new ParticleGroup(ctx) in a window of the given size
Constructed(w, h) ==
    /\ groups = << >>
    /\ images = << >>
    /\ isRunning = TRUE
    /\ innerWidth = w
    /\ innerHeight = h
    /\ frames = 0
    /\ last = Done("new", FALSE, 0, 0)

\* a Group literal as addDefaultGroup and random build it
NewGroup(count, forces, ranges, particleRadius) ==
    [id |-> NewId(groups), items |-> << >>, count |-> count, forces |-> forces,
     ranges |-> ranges, particleRadius |-> particleRadius, isRunning |-> isRunning]

AddGroup(group, rnd) ==
    LET r == addGroup(groups, group, rnd)
    IN  /\ Len(groups) < MaxGroups
        /\ \A k \in 1..Len(groups) : Len(groups[k].forces) < MaxGroups
        /\ groups' = r.groups
        /\ images' = IF r.threw THEN images ELSE updateImages(r.groups, images)
        /\ last' = Done("addGroup", r.threw, Len(groups) + 1, 0)
        /\ UNCHANGED <<isRunning, innerWidth, innerHeight, frames>>

RemoveGroup(k) ==
    /\ groups' = removeGroup(groups, groups[k].id)
    /\ images' = updateImages(groups', images)
    /\ last' = Done("removeGroup", FALSE, k, 0)
    /\ UNCHANGED <<isRunning, innerWidth, innerHeight, frames>>

Pause ==
    /\ isRunning' = ~isRunning
    /\ groups' = pause(groups, ~isRunning)
    /\ last' = Done("pause", FALSE, 0, 0)
    /\ UNCHANGED <<images, innerWidth, innerHeight, frames>>

\* RenderService: the resize handler copies the window size to the canvas
Resize(w, h) ==
    /\ innerWidth' = w
    /\ innerHeight' = h
    /\ last' = Done("resize", FALSE, 0, 0)
    /\ UNCHANGED <<groups, images, isRunning, frames>>

\* dt * this.dt for a frame that took delta milliseconds
FrameDt(delta) == Scale(N(IF delta < 20 THEN delta ELSE 20), dtScale)

\* one animation frame: step, then draw (which changes no state kept here)
Step(delta) ==
    LET r == step(groups, FrameDt(delta), innerWidth, innerHeight, dampening)
    IN  /\ frames < MaxFrames
        /\ groups' = r.groups
        /\ frames' = frames + 1
        /\ last' = [Done("step", FALSE, 0, r.calls) EXCEPT !.passes = r.passes]
        /\ UNCHANGED <<images, isRunning, innerWidth, innerHeight>>

\* the positions updateParticleCount draws for group: one pair of points
\* per particle it will push
Draws(group, points) == [1..Iterations(group.count - N(Len(group.items))) -> points]

defaultRadius == 25
defaultSize == 25

\* AppComponent.addDefaultGroup
DefaultGroup ==
    NewGroup(Div(Div(Mul(innerWidth, innerHeight), N(defaultSize)), N(400)),
             [i \in 1..(Len(groups) + 1) |-> IF i <= Len(groups) THEN 0 ELSE -N(1)],
             [i \in 1..(Len(groups) + 1) |-> N(defaultRadius)],
             N(defaultSize))

AddDefaultGroup(rnd) ==
    LET r == addGroup(groups, DefaultGroup, rnd)
    IN  /\ Len(groups) < MaxDefault
        /\ groups' = r.groups
        /\ images' = IF r.threw THEN images ELSE updateImages(r.groups, images)
        /\ last' = Done("addDefaultGroup", r.threw, Len(groups) + 1, 0)
        /\ UNCHANGED <<isRunning, innerWidth, innerHeight, frames>>

\* group.count -= Math.round(step), for a whole step
Recount(group, amount) == [group EXCEPT !.count = @ - N(amount)]

\* AppComponent.addParticles on the group at index k
AddParticles(k, amount, rnd) ==
    LET r == updateParticleCount(Recount(groups[k], amount), rnd)
    IN  /\ Abs(Recount(groups[k], amount).count) <= N(MaxCount)
        /\ groups' = [groups EXCEPT ![k] = [Recount(@, amount) EXCEPT !.items = r.items]]
        /\ last' = Done("addParticles", r.threw, k, 0)
        /\ UNCHANGED <<images, isRunning, innerWidth, innerHeight, frames>>

----------------------------------------------------------------------------
(* The registry: addGroup with any well-formed group, removeGroup, pause   *)

RegRadii == {N(1), N(2)}
RegLow == N(1)
RegHigh == N(2)

\* rows of n ranges, all RegHigh but at most one
RegRangeRows(n) ==
    {[i \in 1..n |-> IF i = low THEN RegLow ELSE RegHigh] : low \in 0..n}

\* The forces of a new group are a mark of the group, so that every entry
\* of a row of the force table tells which group it was pushed for.
RegForce == -N(NewId(groups))

RegGroups ==
    {NewGroup(0, [i \in 1..(Len(groups) + 1) |-> RegForce], ranges, radius) :
        ranges \in RegRangeRows(Len(groups) + 1), radius \in RegRadii}

Init == Constructed(N(8), N(8))

Next ==
    \/ \E group \in RegGroups : AddGroup(group, << >>)
    \/ \E k \in 1..Len(groups) : RemoveGroup(k)
    \/ Pause

Spec == Init /\ [][Next]_vars

----------------------------------------------------------------------------
(* Claims about the registry                                               *)

\* C1 (as claimed): in every reachable state, every group's forces and
\* ranges have as many entries as the registry has groups.
IndexAlignment ==
    \A k \in 1..Len(groups) :
        /\ Len(groups[k].forces) = Len(groups)
        /\ Len(groups[k].ranges) = Len(groups)

\* C2 (as claimed): an addGroup that throws leaves the registry, and every
\* existing group's forces and ranges, as they were before the call.
AddGroupAllOrNothing ==
    [][(last'.op = "addGroup" /\ last'.threw) => groups' = groups]_vars

\* C3 (as claimed): every range of every group of the registry, at every
\* index, is at least the group's particleRadius.
RangeCoversRadius ==
    \A k \in 1..Len(groups) :
        \A j \in 1..Len(groups[k].ranges) :
            groups[k].ranges[j] >= groups[k].particleRadius

\* the row s without its entry at index k: entries below k stay, an entry
\* formerly at m > k is at m - 1
IsRowWithout(new, old, k) ==
    /\ Len(new) = Len(old) - 1
    /\ \A j \in 1..Len(new) : new[j] = IF j < k THEN old[j] ELSE old[j + 1]

\* C4: removeGroup of the group at index k removes exactly that group, the
\* remaining groups keep their order and their other fields, and each of
\* them loses exactly the entry at index k of its forces and of its ranges.
RemoveGroupSplicesEveryRow ==
    [][last'.op = "removeGroup" =>
        LET k == last'.at
        IN  /\ Len(groups') = Len(groups) - 1
            /\ \A m \in 1..Len(groups') :
                  LET old == groups[IF m < k THEN m ELSE m + 1]
                      new == groups'[m]
                  IN  /\ new.id = old.id
                      /\ new.items = old.items
                      /\ new.count = old.count
                      /\ new.particleRadius = old.particleRadius
                      /\ new.isRunning = old.isRunning
                      /\ IsRowWithout(new.forces, old.forces, k)
                      /\ IsRowWithout(new.ranges, old.ranges, k)]_vars

\* C4 witness: the middle group of three has been removed, and the two
\* that remain have rows of two entries with different marks.
RemovedMiddleOfThree ==
    /\ last.op = "removeGroup"
    /\ last.at = 2
    /\ Len(groups) = 2
    /\ \A m \in 1..2 : Len(groups[m].forces) = 2 /\ Len(groups[m].ranges) = 2
    /\ groups[1].forces[1] # groups[1].forces[2]

----------------------------------------------------------------------------
(* Particle counts: addDefaultGroup and addParticles in a resizable window *)

CountWidths == {N(100), N(150)}
CountHeight == N(100)
CountPoints == {<<N(10), N(10)>>, <<N(20), N(10)>>}
CountSteps == {-1, 1, 2}

InitCount == \E w \in CountWidths : Constructed(w, CountHeight)

NextCount ==
    \/ \E rnd \in Draws(DefaultGroup, CountPoints) : AddDefaultGroup(rnd)
    \/ \E k \in 1..Len(groups), amount \in CountSteps :
          \E rnd \in Draws(Recount(groups[k], amount), CountPoints) :
             AddParticles(k, amount, rnd)
    \/ \E w \in CountWidths : Resize(w, CountHeight)
    \/ \E k \in 1..Len(groups) : RemoveGroup(k)

SpecCount == InitCount /\ [][NextCount]_vars

\* C5 (as claimed): when updateParticleCount has returned, the group has
\* as many particles as its count says, and a second call with the same
\* count returns and changes nothing.
CountReconciled ==
    (last.op \in {"addDefaultGroup", "addParticles"} /\ ~last.threw) =>
        LET group == groups[last.at]
            again == updateParticleCount(group, [i \in 1..(MaxCount + 1) |-> <<0, 0>>])
        IN  /\ N(Len(group.items)) = group.count
            /\ ~again.threw
            /\ again.items = group.items

----------------------------------------------------------------------------
(* The simulation: a few groups of a few particles, stepped frame by frame *)

SimRadius == 2
SimRange == 4
SimForces == {0, -N(1)}
SimCounts == {1, 2}
SimWidths == {N(8), N(3)}
SimHeight == N(6)
SimDeltas == {20}

\* Three places a particle is drawn at: A is below the lower walls, B is
\* inside them and within the hard core of A, C is above the upper wall
\* and within the range of B but not of A.
SimA == <<N(1), N(1)>>
SimB == <<N(2), N(2)>>
SimC == <<N(2), N(5)>>

\* the draws of updateParticleCount for group: different places, in order
SimDraws(group) ==
    {rnd \in {<<SimA>>, <<SimB>>, <<SimC>>,
              <<SimA, SimB>>, <<SimA, SimC>>, <<SimB, SimC>>} :
        Len(rnd) = Iterations(group.count - N(Len(group.items)))}

SimGroups ==
    {NewGroup(N(count), forces, [i \in 1..(Len(groups) + 1) |-> N(SimRange)],
              N(SimRadius)) :
        count \in SimCounts, forces \in [1..(Len(groups) + 1) -> SimForces]}

InitSim == \E w \in SimWidths : Constructed(w, SimHeight)

NextSim ==
    \/ \E group \in SimGroups : \E rnd \in SimDraws(group) :
          Len(groups) < MaxSimGroups /\ AddGroup(group, rnd)
    \/ \E delta \in SimDeltas : Step(delta)
    \/ Pause

SpecSim == InitSim /\ [][NextSim]_vars

----------------------------------------------------------------------------
(* Claims about the simulation                                             *)

Moving(p) == p.vx # 0 \/ p.vy # 0

Idle(gs, i) == ~gs[i].isRunning \/ \A j \in 1..Len(gs) : gs[i].forces[j] = 0

\* C6: a frame leaves every particle of a group that is not running, or
\* whose forces are all zero, as it was, whatever the other groups do.
StepLeavesIdleGroups ==
    [][frames' = frames + 1 =>
        \A i \in 1..Len(groups) : Idle(groups, i) => groups'[i] = groups[i]]_vars

\* C6 witness: a frame has been computed after pause() stopped a group
\* with a force and a particle still moving from earlier frames.
SteppedWhilePaused ==
    /\ last.op = "step"
    /\ frames >= 2
    /\ \E i \in 1..Len(groups) :
          /\ ~groups[i].isRunning
          /\ \E j \in 1..Len(groups) : groups[i].forces[j] # 0
          /\ \E n \in 1..Len(groups[i].items) : Moving(groups[i].items[n])

\* the registry after the sweep of the pair (i, j) with force f
Swept(i, j, f) ==
    interactGroup(Entry(groups), i, j, f, groups[i].ranges[j],
                  FrameDt(20), innerWidth, innerHeight, dampening).groups

\* the registry after the body of the loops of step for the pair (i, j)
Stepped(i, j) ==
    stepPair(Entry(groups), i, j,
             FrameDt(20), innerWidth, innerHeight, dampening).groups

ZeroPairs ==
    {ij \in (1..Len(groups)) \X (1..Len(groups)) :
        groups[ij[1]].isRunning /\ groups[ij[1]].forces[ij[2]] = 0}

InsideWalls(p, r) ==
    /\ r <= p.x /\ p.x <= innerWidth - r
    /\ r <= p.y /\ p.y <= innerHeight - r

SamePlace(a, b) == a.x = b.x /\ a.y = b.y

\* every particle of group i is at rest inside the walls, and no particle
\* of group j at another place is within its hard core
AtRest(i, j) ==
    \A n \in 1..Len(groups[i].items) :
        LET a == groups[i].items[n]
        IN  /\ a.vx = 0 /\ a.vy = 0 /\ a.ax = 0 /\ a.ay = 0
            /\ InsideWalls(a, groups[i].particleRadius)
            /\ \A m \in 1..Len(groups[j].items) :
                  LET b == groups[j].items[m]
                  IN  SamePlace(a, b) \/ Distance(a, b) >= groups[i].particleRadius

RECURSIVE SumOver(_, _)
SumOver(gs, S) ==
    IF S = {} THEN 0
    ELSE LET ij == CHOOSE x \in S : TRUE
         IN  Len(gs[ij[1]].items) * Len(gs[ij[2]].items) + SumOver(gs, S \ {ij})

ActivePairs(gs) ==
    {ij \in (1..Len(gs)) \X (1..Len(gs)) :
        gs[ij[1]].isRunning /\ gs[ij[1]].forces[ij[2]] # 0}

\* C8: computationsPerFrame is the sum of n_i * n_j over the pairs (i, j)
\* with group i running and a force that is not zero, and it is the
\* number of calls of interactParticle the next frame makes.
ComputationsPerFrameCountsCalls ==
    [][frames' = frames + 1 =>
        /\ computationsPerFrame(groups) = SumOver(groups, ActivePairs(groups))
        /\ computationsPerFrame(groups) = last'.calls]_vars

\* C8 witness: a frame made calls while a pair with particles on both
\* sides was left out.
SteppedSomePairs ==
    /\ last.op = "step"
    /\ last.calls >= 2
    /\ \E i, j \in 1..Len(groups) :
          /\ ~groups[i].isRunning \/ groups[i].forces[j] = 0
          /\ Len(groups[i].items) * Len(groups[j].items) > 0

\* every particle of the registry, with the radius of its group
ParticlesWithRadius ==
    UNION {{<<groups[i].items[n], groups[i].particleRadius>> :
                n \in 1..Len(groups[i].items)} : i \in 1..Len(groups)}

\* what constraint does to the particle p of radius r along x and y, case
\* by case in the order of its tests
ConstraintCases(p, r) ==
    LET q == constraint(p, r, innerWidth, innerHeight)
    IN  /\ (r <= p.x /\ p.x <= innerWidth - r) => (q.x = p.x /\ q.vx = p.vx)
        /\ p.x < r => (q.x = r /\ q.vx = -p.vx)
        /\ (p.x >= r /\ p.x > innerWidth - r) =>
              (q.x = innerWidth - r /\ q.vx = -p.vx)
        /\ (r <= p.y /\ p.y <= innerHeight - r) => (q.y = p.y /\ q.vy = p.vy)
        /\ p.y < r => (q.y = r /\ q.vy = -p.vy)
        /\ (p.y >= r /\ p.y > innerHeight - r) =>
              (q.y = innerHeight - r /\ q.vy = -p.vy)
        /\ q.ax = p.ax /\ q.ay = p.ay

Roomy(r) == innerWidth >= 2 * r /\ innerHeight >= 2 * r

AllInside(group) ==
    \A n \in 1..Len(group.items) : InsideWalls(group.items[n], group.particleRadius)

\* C9: constraint leaves a particle between the walls alone, puts one
\* below a lower wall on that wall and one above an upper wall on that
\* wall, negating the velocity across the wall; hence, in a world at least
\* two radii wide and high, every particle of the target group is inside
\* the walls after a sweep, and after a frame that swept the group.
ConstraintKeepsInside ==
    /\ \A pr \in ParticlesWithRadius : ConstraintCases(pr[1], pr[2])
    /\ \A i, j \in 1..Len(groups) :
          Roomy(groups[i].particleRadius) =>
              AllInside(Swept(i, j, groups[i].forces[j])[i])
    /\ last.op = "step" =>
          \A i \in 1..Len(groups) :
              (Roomy(groups[i].particleRadius) /\ ~Idle(groups, i)) =>
                  AllInside(groups[i])

\* C9 witness: a frame swept a group in a roomy world, one particle sits
\* on the lower wall it was pushed through, moving back, and a particle
\* sits on the upper wall.
BouncedOffWalls ==
    /\ last.op = "step"
    /\ \E i \in 1..Len(groups) :
          /\ Roomy(groups[i].particleRadius) /\ ~Idle(groups, i)
          /\ \E n \in 1..Len(groups[i].items) :
                LET p == groups[i].items[n]
                IN  p.x = groups[i].particleRadius /\ p.ax < 0 /\ p.vx > 0
    /\ \E i \in 1..Len(groups) :
          /\ Roomy(groups[i].particleRadius) /\ ~Idle(groups, i)
          /\ \E n \in 1..Len(groups[i].items) :
                groups[i].items[n].y = innerHeight - groups[i].particleRadius

KernelForces == {-N(1), 0, N(1)}
KernelRanges == {N(1), N(4)}

\* what interactParticle(a, b, f, maxDistance, r) does to a
KernelCases(a, b, f, maxDistance, r) ==
    LET d == Distance(a, b)
        q == interactParticle(a, b, f, maxDistance, r)
    IN  /\ q.x = a.x /\ q.y = a.y /\ q.vx = a.vx /\ q.vy = a.vy
        /\ (d < r /\ ~SamePlace(a, b)) =>
              /\ Sign(q.ax - a.ax) = Sign(a.x - b.x)
              /\ Sign(q.ay - a.ay) = Sign(a.y - b.y)
        /\ ~(r <= d /\ d < maxDistance) =>
              q = interactParticle(a, b, 0, maxDistance, r)
        /\ (d >= r /\ d >= maxDistance) => q = a

\* C10: for particles at different places with distance below the radius
\* of a's group, interactParticle changes a's acceleration along
\* (a.x - b.x, a.y - b.y), whatever f and maxDistance; f is used only when
\* particleRadius <= distance < maxDistance, and beyond the hard core
\* there is no contribution when distance >= maxDistance.
HardCoreRepels ==
    \A i, j \in 1..Len(groups) :
        \A n \in 1..Len(groups[i].items), m \in 1..Len(groups[j].items) :
            \A f \in KernelForces, maxDistance \in KernelRanges :
                KernelCases(groups[i].items[n], groups[j].items[m], f, maxDistance,
                            groups[i].particleRadius)

\* C10 witness: after a frame, two particles at different places are
\* within the hard core of a group the frame swept, one of them pushed.
PushedApartInHardCore ==
    /\ last.op = "step"
    /\ \E i, j \in 1..Len(groups) :
          /\ groups[i].isRunning /\ groups[i].forces[j] # 0
          /\ \E n \in 1..Len(groups[i].items), m \in 1..Len(groups[j].items) :
                LET a == groups[i].items[n]
                    b == groups[j].items[m]
                IN  /\ ~SamePlace(a, b)
                    /\ Distance(a, b) < groups[i].particleRadius
                    /\ (a.ax # 0 \/ a.ay # 0)

----------------------------------------------------------------------------
(* Resets and integrations of a particle within one frame                  *)

\* the source groups that have a force with the target group i, in the
\* order of the registry
SourceList(gs, i) ==
    LET Acts(j) == gs[i].forces[j] # 0
    IN  SelectSeq([j \in 1..Len(gs) |-> j], Acts)

HasSweeps(gs, i) == gs[i].isRunning /\ Len(SourceList(gs, i)) >= 1

\* C11 (as claimed): within one frame every particle of a running target
\* group that has a force with some source group is reset and integrated
\* exactly once, however many source groups it has a force with.
ResetAndIntegratedOncePerFrame ==
    [][frames' = frames + 1 =>
        \A i \in 1..Len(groups) :
            HasSweeps(groups, i) =>
                \A n \in 1..Len(groups[i].items) : Len(last'.passes[i][n]) = 1]_vars

StrictlyInside(p, r) ==
    /\ r < p.x /\ p.x < innerWidth - r
    /\ r < p.y /\ p.y < innerHeight - r

\* the acceleration of the particle q of group i, which the frame left
\* clear of the walls, is what the particles items of group j alone give
\* it at the place it was integrated from
FromSourceAlone(gs, i, j, items, q) ==
    LET from == [q EXCEPT !.x = @ - q.vx, !.y = @ - q.vy, !.ax = 0, !.ay = 0]
        pushed == sources(from, items, 1, gs[i].forces[j], gs[i].ranges[j],
                          gs[i].particleRadius)
    IN  q.ax = pushed.ax /\ q.ay = pushed.ay

\* C11 (amended): within one frame every particle of a running target
\* group is reset and integrated once for each source group it has a force
\* with, in the order of the registry, and never otherwise; the
\* acceleration the frame leaves is the contribution of the last of these
\* source groups alone (read here where that group is another group,
\* whose particles are those before the frame when it comes later in the
\* registry and those after the frame when it comes earlier, and the
\* particle ends clear of the walls).
ResetAndIntegratedOncePerSource ==
    [][frames' = frames + 1 =>
        \A i \in 1..Len(groups) : \A n \in 1..Len(groups[i].items) :
            /\ last'.passes[i][n] =
                  IF groups[i].isRunning THEN SourceList(groups, i) ELSE <<>>
            /\ HasSweeps(groups, i) =>
                  LET j == SourceList(groups, i)[Len(SourceList(groups, i))]
                      q == groups'[i].items[n]
                      items == IF j > i THEN groups[j].items ELSE groups'[j].items
                  IN  (j # i /\ StrictlyInside(q, groups[i].particleRadius)) =>
                          FromSourceAlone(groups, i, j, items, q)]_vars

\* C11 witness: a frame swept a target group against itself and then
\* against a later group; a particle of the target group was
\* reset and integrated twice, ends clear of the walls within the range of
\* another particle of its own group, and is accelerated.
SweptTwiceInOneFrame ==
    /\ last.op = "step"
    /\ \E i, j \in 1..Len(groups) :
          /\ i < j
          /\ groups[i].isRunning
          /\ SourceList(groups, i) = <<i, j>>
          /\ \E n, m \in 1..Len(groups[i].items) :
                LET q == groups[i].items[n]
                IN  /\ n # m
                    /\ last.passes[i][n] = <<i, j>>
                    /\ StrictlyInside(q, groups[i].particleRadius)
                    /\ Distance(q, groups[i].items[m]) < groups[i].ranges[i]
                    /\ (q.ax # 0 \/ q.ay # 0)

=============================================================================
